---- MODULE Spec2Model ----
(***************************************************************************)
(* Model of the chat handler of OrdalFilkom (src/src/core/chat_handler.py) *)
(* and of the settings it reads (src/src/config/settings.py).              *)
(*                                                                         *)
(* ChatHandler.process_query is a retry loop around chat_engine.chat.  One *)
(* action models one pass through the loop body: the chat call, and the    *)
(* whole except-branch that handles its failure (model switch, sleep,      *)
(* return).  The exception raised by the chat engine is modelled by the    *)
(* set of substrings the handler looks for in str(e); the handler's        *)
(* classification is computed from that set the way the code computes it.  *)
(***************************************************************************)
EXTENDS Integers, Sequences, FiniteSets, TLC

VARIABLES
    fallbackModels,          \* Settings.FALLBACK_MODELS (model ids, priority order)
    llm,                     \* chat_engine._llm: the model the engine calls
    pc,                      \* "idle" | "loop" (at the while guard) | "done" (returned)
    max_retries,             \* process_query's parameter
    retry_count,             \* local
    current_model_index,     \* local: -1 primary, 0.. index into FALLBACK_MODELS
    rate_limit_encountered,  \* local
    result,                  \* the returned tuple, once pc = "done"
    trace,                   \* what the current call did, in order
    calls,                   \* process_query calls started on this handler
    error_str,               \* local: str(e) of the last exception caught (line 61)
    \* the sessions that share the cached handler (frontend/app.py)
    caller,                  \* the session whose query the current call processes
    lastSwitcher,            \* the session whose query made the last model switch
    \* _extract_sources on its own
    source_nodes,            \* response.source_nodes
    sources_data,            \* what _extract_sources returned (None before the call)
    \* the Streamlit front end (frontend/app.py) and RAGEngine's construction
    secrets,                 \* st.secrets: key name -> value
    environ,                 \* os.environ: key name -> value
    chat_handler,            \* init_chat_handler()'s cached result
    eng_events,              \* provider calls RAGEngine.__init__ made, in order
    init_error,              \* the exception RAGEngine() raised
    messages,                \* st.session_state.messages (roles)
    uncaught,                \* the exception that ended the last script run
    chat_input_rendered,     \* the last script run reached st.chat_input
    runs,                    \* script runs of the session so far
    \* the ingestion scripts (scripts/ingest.py, ingest.py)
    ing_variant,             \* which of the two scripts runs
    ing_keys,                \* the key names set in the environment
    index_exists,            \* the vector store has an index named INDEX_NAME
    name_in_existing,        \* the local test INDEX_NAME in existing_indexes
    ing_pc,                  \* "start" | "batching" | "done" | "returned" | "aborted"
    ing_events,              \* vector store calls made, in order
    ing_nodes,               \* len(nodes)
    batch_i,                 \* the loop variable i of the batch loop
    index_obj,               \* the local index: None until a batch constructed it
    \* the refinement stage of scripts/ingest.py
    leaf_nodes,              \* the leaf chunks, in order
    ref_pos,                 \* leaves the loop has processed
    refined,                 \* the output list (nodes in the code)
    split_log,               \* calls of the semantic splitter and their outcome
    \* get_meta (src/utils/metadata.py, utils.py)
    file_dirs,               \* the directories of file_path, outermost first
    file_name,               \* the last component of file_path, a string of characters
    meta,                    \* the returned dict (None before the call)
    \* render_pdf_page (src/utils/pdf_renderer.py, utils.py)
    pdf_openable,            \* fitz.open(pdf_path) succeeds
    page_count,              \* len(doc)
    page_number,             \* the argument page_number
    render_fail,             \* the rendering call that raises ("none": none does)
    img,                     \* the return value
    \* the retry state of a chat session (frontend/app.py)
    pending_retry,           \* st.session_state.pending_retry
    available_models,        \* st.session_state.available_models
    settings_complete,       \* Settings has get_all_available_models (line 151)
    handler_loaded,          \* init_chat_handler() returned a handler
    last_run,                \* what the last script run of the session did
    session_runs             \* script runs of the session so far

vars == <<fallbackModels, llm, pc, max_retries, retry_count, current_model_index,
          rate_limit_encountered, result, trace, calls, error_str>>

----------------------------------------------------------------------------
(* Bounds of the model *)

MaxRetriesBound == 3
MaxFallbacks == 2
MaxNodes == 5
MaxCalls == 2
NumSessions == 2
MaxRuns == 2
MaxIngestNodes == 45
MaxTokens == 3
MaxLeaves == 2
MaxChunks == 3
MaxNameLen == 5
MaxDirs == 2
MaxPages == 3
MaxSessionRuns == 4
MaxOffered == 2

(* Settings *)

MAX_RETRIES == 3
RETRY_WAIT_BASE == 25
TOP_SOURCES_TO_DISPLAY == 3
BATCH_SIZE == 20
DEFAULT_YEAR == 2024

\* Settings.LLM_MODEL: the primary model.  Fallback models are numbered 1, 2, ...
LLM_MODEL == 0

\* The lists Settings.FALLBACK_MODELS ranges over: the first n fallback models.
FallbackLists == { [i \in 1..n |-> i] : n \in 0..MaxFallbacks }

----------------------------------------------------------------------------
(* Optional values: None is the empty sequence, a value v is <<v>>. *)

None == <<>>
Some(v) == <<v>>

----------------------------------------------------------------------------
(* Exceptions.  str(e) is modelled by the set of the substrings the handler *)
(* tests for that occur in it ("rate", "tokens per day", "tpd", "context    *)
(* size" and "not non-negative" after lower-casing).                        *)

Markers == {"429", "RESOURCE_EXHAUSTED", "rate", "tokens per day", "tpd",
            "context size", "not non-negative"}

Errors == SUBSET Markers

\* line 65
IsRateLimit(e) == "429" \in e \/ "RESOURCE_EXHAUSTED" \in e \/ "rate" \in e

\* line 67
IsDailyQuota(e) == "tokens per day" \in e \/ "tpd" \in e

\* line 147
IsContextOverflow(e) == "context size" \in e /\ "not non-negative" \in e

\* The branch of the except-block an exception takes (lines 65, 147, 166).
ErrorKind(e) ==
    IF IsRateLimit(e) THEN (IF IsDailyQuota(e) THEN "daily" ELSE "rate")
    ELSE IF IsContextOverflow(e) THEN "context"
    ELSE "other"

\* The outcome of constructing the fallback Groq client (lines 82-99): it
\* succeeds, or raises with or without "tokens per day" in the message.
SwitchOutcomes == {"ok", "raise", "raise_tpd"}

----------------------------------------------------------------------------
(* Messages returned as error_message *)

Msg(m, d) == [msg |-> m, detail |-> d]

DailyQuotaMsg == Msg("Kuota harian sudah habis", {})
ServerBusyMsg == Msg("Server sedang sibuk", {})
ContextOverflowMsg == Msg("pertanyaan terlalu kompleks", {})
MaxRetriesMsg == Msg("Max retries exceeded", {})
\* The generic message without the exception's text.
OtherErrorMsgGeneric(e) == Msg("Terjadi kesalahan", {})

OtherErrorMsg(e) == Msg("Terjadi kesalahan", e)

\* The returned tuple (response_text, sources_data, error_message).
Tuple(a, c, e) == [answer_text |-> a, citations |-> c, error_message |-> e]

NoResult == Tuple(None, None, None)

\* An error return that hands back an empty source list instead of None.
ErrorTupleEmptySources(m) == Tuple(None, Some(<<>>), Some(m))

\* return None, None, error_msg
ErrorTuple(m) == Tuple(None, None, Some(m))

\* return response.response, sources_data, None
SuccessTuple(answer, sources) == Tuple(Some(answer), Some(sources), None)

----------------------------------------------------------------------------
(* Retrieved nodes and citations *)

NoScore == -1

\* A key that node.metadata does not hold.
MissingKey == "<missing>"

\* The i-th retrieved node: metadata and a similarity score in thousandths
\* (NoScore when node.score is None).
NodeAt(i) ==
    [file_name |-> "doc.pdf", page_label |-> ToString(10 + i), category |-> "cat",
     score |-> IF i % 2 = 0 THEN NoScore ELSE 873 - i]

SourceNodes(n) == [i \in 1..n |-> NodeAt(i)]

\* node.metadata.get(key, default), with no default applied
MetaGetNoDefault(v, default) == v

\* node.metadata.get(key, default)
MetaGet(v, default) == IF v = MissingKey THEN default ELSE v

\* Scores s/1000 whose double, times 100, is not the tie xx.5 their decimal
\* form suggests: 0.545 * 100 is just above 54.5, 0.575 * 100 just below 57.5.
FloatAboveTie == {545}
FloatBelowTie == {575}

\* f"{score:.0%}" cutting the fraction off instead of rounding
PercentFormatTruncating(s) == s \div 10

\* f"{score:.0%}": the score times 100, rounded to a whole number (half to even).
PercentFormat(s) ==
    LET q == s \div 10
        r == s % 10
    IN  IF \/ r > 5
           \/ r = 5 /\ q % 2 = 1 /\ s \notin FloatBelowTie
           \/ s \in FloatAboveTie
        THEN q + 1 ELSE q

\* ChatHandler._extract_sources; the score "N/A" is None, "87%" is Some(87).
ExtractSources(nodes) ==
    [i \in 1..Len(nodes) |->
        [file_name |-> MetaGet(nodes[i].file_name, "Unknown"),
         page |-> MetaGet(nodes[i].page_label, "Unknown"),
         category |-> MetaGet(nodes[i].category, "Unknown"),
         score |-> IF nodes[i].score # NoScore
                   THEN Some(PercentFormat(nodes[i].score)) ELSE None]]

\* response.source_nodes, not cut
TopSliceAll(nodes) == nodes

\* response.source_nodes[:Settings.TOP_SOURCES_TO_DISPLAY]
TopSlice(nodes) ==
    SubSeq(nodes, 1, IF Len(nodes) < TOP_SOURCES_TO_DISPLAY
                     THEN Len(nodes) ELSE TOP_SOURCES_TO_DISPLAY)

----------------------------------------------------------------------------
(* Events of the trace *)

ChatEv(model, out) == [ev |-> "chat", model |-> model, out |-> out, secs |-> 0]
SwitchEv(model) == [ev |-> "switch", model |-> model, out |-> "ok", secs |-> 0]
SwitchFailedEv(model) == [ev |-> "switch_failed", model |-> model, out |-> "raise", secs |-> 0]
SleepEv(s) == [ev |-> "sleep", model |-> -1, out |-> "ok", secs |-> s]

----------------------------------------------------------------------------
Init ==
    /\ fallbackModels \in FallbackLists
    /\ llm = LLM_MODEL
    /\ pc = "idle"
    /\ max_retries = 0
    /\ retry_count = 0
    /\ current_model_index = -1
    /\ rate_limit_encountered = FALSE
    /\ result = NoResult
    /\ trace = <<>>
    /\ calls = 0
    /\ error_str = {}

\* process_query is entered (lines 38-43).
StartQuery ==
    /\ pc \in {"idle", "done"}
    /\ calls < MaxCalls
    /\ \E mr \in 0..MaxRetriesBound : max_retries' = mr
    /\ retry_count' = 0
    /\ current_model_index' = -1
    /\ rate_limit_encountered' = FALSE
    /\ result' = NoResult
    /\ trace' = <<>>
    /\ calls' = calls + 1
    /\ error_str' = {}
    /\ pc' = "loop"
    /\ UNCHANGED <<fallbackModels, llm>>

\* return (line 58, 110, 123, 143, 157, 165, 169, 171)
Return(t) ==
    /\ result' = t
    /\ pc' = "done"

\* A loop guard that lets one more pass through
LoopGuardInclusive == retry_count <= max_retries

\* line 45: while retry_count < max_retries
LoopGuard == retry_count < max_retries

\* The loop guard fails (line 45) and the function falls through to line 171.
LoopExit ==
    /\ pc = "loop"
    /\ ~LoopGuard
    /\ Return(ErrorTuple(MaxRetriesMsg))
    /\ UNCHANGED <<fallbackModels, llm, max_retries, retry_count,
                   current_model_index, rate_limit_encountered, trace, calls, error_str>>

\* chat succeeds (lines 50-58).
ChatSuccess ==
    /\ pc = "loop"
    /\ LoopGuard
    /\ \E n \in 0..MaxNodes :
          Return(SuccessTuple("answer", ExtractSources(TopSlice(SourceNodes(n)))))
    /\ trace' = Append(trace, ChatEv(llm, "ok"))
    /\ UNCHANGED <<fallbackModels, llm, max_retries, retry_count,
                   current_model_index, rate_limit_encountered, calls, error_str>>

----------------------------------------------------------------------------
(* The rate-limit branch (lines 65-143) *)

\* line 73: a fallback model after the current one exists.
HasNextFallback(idx) == idx < Len(fallbackModels) - 1

\* line 75: Settings.FALLBACK_MODELS[current_model_index] (Python counts from 0).
FallbackAt(idx) == fallbackModels[idx + 1]

\* line 113: the sleep-and-retry condition.
MayWait(rc, idx) == rc < max_retries /\ idx >= Len(fallbackModels) - 1

\* A constant wait, not scaled by the retry count.
WaitTimeConstant(rc) == RETRY_WAIT_BASE

\* line 125
WaitTime(rc) == RETRY_WAIT_BASE * rc

\* Exhaustion that does not look at the daily-quota flag.
ExhaustedMsgNoDaily(daily) == ServerBusyMsg

\* lines 133-141: the message when the retries are used up.
ExhaustedMsg(daily) == IF daily THEN DailyQuotaMsg ELSE ServerBusyMsg

\* Lines 113-143, entered with the incremented retry count rc, the current
\* model index idx and the trace tr so far: return the daily-quota message,
\* sleep and go round the loop, return the exhaustion message, or (neither
\* condition holding) leave the except-block and go round the loop.
AfterFallback(rc, idx, daily, tr) ==
    IF MayWait(rc, idx)
    THEN IF daily
         THEN /\ Return(ErrorTuple(DailyQuotaMsg))
              /\ trace' = tr
         ELSE /\ trace' = Append(tr, SleepEv(WaitTime(rc)))
              /\ pc' = "loop"
              /\ UNCHANGED result
    ELSE IF rc >= max_retries
         THEN /\ Return(ErrorTuple(ExhaustedMsg(daily)))
              /\ trace' = tr
         ELSE /\ trace' = tr
              /\ pc' = "loop"
              /\ UNCHANGED result

\* chat raises a rate-limit error, a next fallback exists and the switch to it
\* succeeds (lines 65-97): continue without sleeping.
RateLimitSwitch ==
    /\ pc = "loop"
    /\ LoopGuard
    /\ \E e \in Errors :
          /\ IsRateLimit(e)
          /\ HasNextFallback(current_model_index)
          /\ error_str' = e
          /\ rate_limit_encountered' = TRUE
          /\ retry_count' = retry_count + 1
          /\ current_model_index' = current_model_index + 1
          /\ llm' = FallbackAt(current_model_index + 1)
          /\ trace' = trace \o <<ChatEv(llm, ErrorKind(e)),
                                 SwitchEv(FallbackAt(current_model_index + 1))>>
          /\ pc' = "loop"
    /\ UNCHANGED <<fallbackModels, max_retries, result, calls>>

\* chat raises a rate-limit error, a next fallback exists and constructing its
\* client raises (lines 65-111): the index has moved on, the engine's model has
\* not; return the daily-quota message or fall through to line 113.
RateLimitSwitchFailed ==
    /\ pc = "loop"
    /\ LoopGuard
    /\ \E e \in Errors, sw \in SwitchOutcomes \ {"ok"} :
          /\ IsRateLimit(e)
          /\ HasNextFallback(current_model_index)
          /\ error_str' = e
          /\ rate_limit_encountered' = TRUE
          /\ retry_count' = retry_count + 1
          /\ current_model_index' = current_model_index + 1
          /\ LET tr == trace \o <<ChatEv(llm, ErrorKind(e)),
                                  SwitchFailedEv(FallbackAt(current_model_index + 1))>>
             IN  IF IsDailyQuota(e) \/ sw = "raise_tpd"
                 THEN /\ Return(ErrorTuple(DailyQuotaMsg))
                      /\ trace' = tr
                 ELSE AfterFallback(retry_count + 1, current_model_index + 1,
                                    IsDailyQuota(e), tr)
    /\ UNCHANGED <<fallbackModels, llm, max_retries, calls>>

\* chat raises a rate-limit error and no next fallback exists (lines 65-73,
\* 113-143).
RateLimitNoFallback ==
    /\ pc = "loop"
    /\ LoopGuard
    /\ \E e \in Errors :
          /\ IsRateLimit(e)
          /\ ~HasNextFallback(current_model_index)
          /\ error_str' = e
          /\ rate_limit_encountered' = TRUE
          /\ retry_count' = retry_count + 1
          /\ AfterFallback(retry_count + 1, current_model_index, IsDailyQuota(e),
                           Append(trace, ChatEv(llm, ErrorKind(e))))
    /\ UNCHANGED <<fallbackModels, llm, max_retries, current_model_index, calls>>

----------------------------------------------------------------------------
(* The other branches (lines 147-169) *)

\* A context-overflow branch that ignores rate_limit_encountered.
ContextMsgIgnoringRateLimit(rle) == ContextOverflowMsg

\* lines 148-165
ContextMsg(rle) == IF rle THEN DailyQuotaMsg ELSE ContextOverflowMsg

ChatContextOverflow ==
    /\ pc = "loop"
    /\ LoopGuard
    /\ \E e \in Errors :
          /\ ~IsRateLimit(e)
          /\ IsContextOverflow(e)
          /\ error_str' = e
          /\ trace' = Append(trace, ChatEv(llm, ErrorKind(e)))
          /\ Return(ErrorTuple(ContextMsg(rate_limit_encountered)))
    /\ UNCHANGED <<fallbackModels, llm, max_retries, retry_count,
                   current_model_index, rate_limit_encountered, calls>>

\* lines 166-169
ChatOtherError ==
    /\ pc = "loop"
    /\ LoopGuard
    /\ \E e \in Errors :
          /\ ~IsRateLimit(e)
          /\ ~IsContextOverflow(e)
          /\ error_str' = e
          /\ trace' = Append(trace, ChatEv(llm, ErrorKind(e)))
          /\ Return(ErrorTuple(OtherErrorMsg(e)))
    /\ UNCHANGED <<fallbackModels, llm, max_retries, retry_count,
                   current_model_index, rate_limit_encountered, calls>>

----------------------------------------------------------------------------
Next ==
    \/ StartQuery
    \/ LoopExit
    \/ ChatSuccess
    \/ RateLimitSwitch
    \/ RateLimitSwitchFailed
    \/ RateLimitNoFallback
    \/ ChatContextOverflow
    \/ ChatOtherError

----------------------------------------------------------------------------
(* Sessions.  init_chat_handler (frontend/app.py lines 31-46) is cached with *)
(* st.cache_resource: one ChatHandler, and so one chat engine, serves every  *)
(* session of the process.                                                   *)

sessVars == <<caller, lastSwitcher>>

NoSession == 0
Sessions == 1..NumSessions

SessIdle == caller = NoSession /\ lastSwitcher = NoSession

----------------------------------------------------------------------------
(* Credentials (settings.py lines 10-29) and the values of the front end *)

KeyNames == {"GOOGLE_API_KEY", "PINECONE_API_KEY", "GROQ_API_KEY"}

\* A key that is not set: st.secrets[k] raises, os.getenv(k) is None.
Absent == "<absent>"
CredValues == {Absent, "", "key"}

NoException == "none"
Uncached == "uncached"
NoHandler == "None"
Handler == "handler"

----------------------------------------------------------------------------
(* The variables of the other components, and the state in which they rest *)

srcVars == <<source_nodes, sources_data>>

SrcIdle == source_nodes = <<>> /\ sources_data = None

appVars == <<secrets, environ, chat_handler, eng_events, init_error, messages,
             uncaught, chat_input_rendered, runs>>

AppStart ==
    /\ chat_handler = Uncached
    /\ eng_events = <<>>
    /\ init_error = NoException
    /\ messages = <<>>
    /\ uncaught = NoException
    /\ chat_input_rendered = FALSE
    /\ runs = 0

AppIdle ==
    /\ secrets = [k \in KeyNames |-> Absent]
    /\ environ = [k \in KeyNames |-> "key"]
    /\ AppStart

ingVars == <<ing_variant, ing_keys, index_exists, name_in_existing, ing_pc, ing_events, ing_nodes,
             batch_i, index_obj>>

IngestKeyNames == {"GOOGLE_API_KEY", "PINECONE_API_KEY", "LLAMA_CLOUD_API_KEY"}

IngStart ==
    /\ ing_pc = "start"
    /\ name_in_existing = FALSE
    /\ ing_events = <<>>
    /\ batch_i = 0
    /\ index_obj = "None"

IngIdle ==
    /\ ing_variant = "scripts/ingest.py"
    /\ ing_keys = IngestKeyNames
    /\ index_exists = FALSE
    /\ ing_nodes = 0
    /\ IngStart

refVars == <<leaf_nodes, ref_pos, refined, split_log>>

RefStart == ref_pos = 0 /\ refined = <<>> /\ split_log = <<>>

RefIdle == leaf_nodes = <<>> /\ RefStart

metaVars == <<file_dirs, file_name, meta>>

MetaIdle == file_dirs = <<>> /\ file_name = <<>> /\ meta = None

pdfVars == <<pdf_openable, page_count, page_number, render_fail, img>>

\* img before the call, and the None that render_pdf_page returns; an image
\* is the number (from 0) of the page it shows.
NotCalled == -2
NoImage == -1

PdfIdle ==
    /\ pdf_openable = TRUE
    /\ page_count = 1
    /\ page_number = 0
    /\ render_fail = "none"
    /\ img = NotCalled

retryVars == <<pending_retry, available_models, settings_complete,
               handler_loaded, last_run, session_runs>>

\* Lines 56-60: both fields start as None.
RetryIdle ==
    /\ pending_retry = None
    /\ available_models = None
    /\ settings_complete = FALSE
    /\ handler_loaded = FALSE
    /\ last_run = "none"
    /\ session_runs = 0

utilVars == <<metaVars, pdfVars, retryVars>>

UtilIdle == MetaIdle /\ PdfIdle /\ RetryIdle

\* The handler with no call made, for the components that do not use it.
ChatIdle == Init /\ fallbackModels = <<1, 2>>

nonChatVars == <<sessVars, srcVars, appVars, ingVars, refVars, utilVars>>
nonSessVars == <<srcVars, appVars, ingVars, refVars, utilVars>>
nonSrcVars == <<vars, sessVars, appVars, ingVars, refVars, utilVars>>
nonAppVars == <<vars, sessVars, srcVars, ingVars, refVars, utilVars>>
nonIngVars == <<vars, sessVars, srcVars, appVars, refVars, utilVars>>
nonRefVars == <<vars, sessVars, srcVars, appVars, ingVars, utilVars>>

nonMetaVars == <<vars, sessVars, srcVars, appVars, ingVars, refVars, pdfVars,
                 retryVars>>
nonPdfVars == <<vars, sessVars, srcVars, appVars, ingVars, refVars, metaVars,
                retryVars>>
nonRetryVars == <<vars, sessVars, srcVars, appVars, ingVars, refVars, metaVars,
                  pdfVars>>

allVars == <<vars, sessVars, srcVars, appVars, ingVars, refVars, utilVars>>

\* The handler on its own: process_query called any number of times.
SpecInit == Init /\ SessIdle /\ SrcIdle /\ AppIdle /\ IngIdle /\ RefIdle /\ UtilIdle

SpecNext ==
    \/ StartQuery /\ UNCHANGED nonChatVars
    \/ LoopExit /\ UNCHANGED nonChatVars
    \/ ChatSuccess /\ UNCHANGED nonChatVars
    \/ RateLimitSwitch /\ UNCHANGED nonChatVars
    \/ RateLimitSwitchFailed /\ UNCHANGED nonChatVars
    \/ RateLimitNoFallback /\ UNCHANGED nonChatVars
    \/ ChatContextOverflow /\ UNCHANGED nonChatVars
    \/ ChatOtherError /\ UNCHANGED nonChatVars

Spec == SpecInit /\ [][SpecNext]_allVars

\* The handler shared by the sessions: each call processes the query of one
\* session; a model switch is made on behalf of the calling session.
SessionInit == Init /\ SessIdle /\ SrcIdle /\ AppIdle /\ IngIdle /\ RefIdle /\ UtilIdle

SessionNext ==
    \/ \E s \in Sessions :
          StartQuery /\ caller' = s /\ UNCHANGED <<lastSwitcher, nonSessVars>>
    \/ LoopExit /\ UNCHANGED <<sessVars, nonSessVars>>
    \/ ChatSuccess /\ UNCHANGED <<sessVars, nonSessVars>>
    \/ RateLimitSwitch /\ lastSwitcher' = caller /\ UNCHANGED <<caller, nonSessVars>>
    \/ RateLimitSwitchFailed /\ UNCHANGED <<sessVars, nonSessVars>>
    \/ RateLimitNoFallback /\ UNCHANGED <<sessVars, nonSessVars>>
    \/ ChatContextOverflow /\ UNCHANGED <<sessVars, nonSessVars>>
    \/ ChatOtherError /\ UNCHANGED <<sessVars, nonSessVars>>

SessionSpec == SessionInit /\ [][SessionNext]_allVars

----------------------------------------------------------------------------
(* RAGEngine construction (src/src/core/rag_engine.py) *)

\* Settings.get_*_api_key: st.secrets[k], and os.getenv(k) when that raises.
GetApiKey(k) == IF secrets[k] # Absent THEN secrets[k] ELSE environ[k]

\* Python truth of a key value, with "" accepted (None alone is false).
TruthyAcceptsEmpty(v) == v # Absent

\* Python truth of a key value: None and "" are false.
Truthy(v) == v # Absent /\ v # ""

\* _validate_api_keys: all([google_key, pinecone_key, groq_key])
ValidateApiKeys == \A k \in KeyNames : Truthy(GetApiKey(k))

\* The provider calls of _initialize, in the order of the code.
InitSteps ==
    <<"GoogleGenAIEmbedding", "Groq", "Pinecone", "pc.Index",
      "from_vector_store", "as_chat_engine">>

\* RAGEngine.__init__: validation, then _initialize; failAt is the provider
\* call that raises (0: none does).
RAGEngineInit(failAt) ==
    IF ~ValidateApiKeys
    THEN [events |-> <<>>, error |-> "ValueError"]
    ELSE IF failAt = 0
         THEN [events |-> InitSteps, error |-> NoException]
         ELSE [events |-> SubSeq(InitSteps, 1, failAt), error |-> "Exception"]

----------------------------------------------------------------------------
(* One run of the front-end script (src/frontend/app.py) *)

\* The attributes class Settings defines (settings.py lines 8-61).
SettingsAttributes ==
    {"get_google_api_key", "get_pinecone_api_key", "get_groq_api_key",
     "INDEX_NAME", "EMBEDDING_MODEL", "LLM_MODEL", "LLM_TEMPERATURE",
     "SIMILARITY_TOP_K", "FALLBACK_MODELS", "DATASET_DIR", "PAGE_TITLE",
     "PAGE_ICON", "LAYOUT", "MAX_RETRIES", "RETRY_WAIT_BASE",
     "TOP_SOURCES_TO_DISPLAY", "PDF_RENDER_DPI"}

\* The parameters of ChatHandler.process_query (chat_handler.py lines 20-24).
ProcessQueryParams == {"query", "max_retries"}

\* The keyword the front end passes at both call sites (lines 103-106, 185-188).
CallKeywords == {"model_name"}

NoPrompt == "none"
Prompts == {NoPrompt, "q"}

\* The script from top to bottom.  prompt is what st.chat_input returns;
\* failAt is the provider call that raises if the engine is constructed.
ScriptRun ==
    \E prompt \in Prompts, failAt \in 0..Len(InitSteps) :
        LET r == RAGEngineInit(failAt)
            \* line 63: init_chat_handler(), cached after its first execution
            h == IF chat_handler # Uncached THEN chat_handler
                 ELSE IF r.error = NoException THEN Handler ELSE NoHandler
            \* line 151
            selectorRaises == "get_all_available_models" \notin SettingsAttributes
            \* lines 185-188
            callRaises == ~(CallKeywords \subseteq ProcessQueryParams)
        IN  /\ runs < MaxRuns
            \* a prompt can only come from a chat input that was rendered
            /\ prompt # NoPrompt => chat_input_rendered
            /\ runs' = runs + 1
            /\ chat_handler' = h
            /\ IF chat_handler = Uncached
               THEN eng_events' = r.events /\ init_error' = r.error
               ELSE UNCHANGED <<eng_events, init_error>>
            /\ IF selectorRaises
               THEN /\ uncaught' = "AttributeError"
                    /\ chat_input_rendered' = FALSE
                    /\ UNCHANGED messages
               ELSE /\ chat_input_rendered' = TRUE
                    /\ IF prompt = NoPrompt
                       THEN uncaught' = NoException /\ UNCHANGED messages
                       ELSE IF h # Handler
                            \* line 237: the handler is None
                            THEN /\ uncaught' = NoException
                                 /\ messages' = Append(messages, "user")
                            ELSE IF callRaises
                                 THEN /\ uncaught' = "TypeError"
                                      /\ messages' = Append(messages, "user")
                                 \* 4 names are unpacked from the 3-tuple
                                 ELSE /\ uncaught' = "ValueError"
                                      /\ messages' = Append(messages, "user")
            /\ UNCHANGED <<secrets, environ>>

AppInit ==
    /\ ChatIdle /\ SessIdle /\ SrcIdle /\ IngIdle /\ RefIdle /\ UtilIdle
    /\ secrets \in [KeyNames -> CredValues]
    /\ environ \in [KeyNames -> CredValues]
    /\ AppStart

AppNext ==
    \/ ScriptRun /\ UNCHANGED nonAppVars

AppSpec == AppInit /\ [][AppNext]_allVars

----------------------------------------------------------------------------
(* The citations of a successful completion (chat_handler.py lines 53-54 and *)
(* _extract_sources), for any list of retrieved nodes                        *)

\* node.score is kept in thousandths: ScoreUnit is the score 1.0.
ScoreUnit == 1000
Scores == 0..ScoreUnit

\* Nodes that differ in what their metadata holds and in their score.
SampleNodes ==
    { [file_name |-> "a.pdf", page_label |-> "1", category |-> "01_Akademik", score |-> 873],
      [file_name |-> "b.pdf", page_label |-> MissingKey, category |-> "02_Kurikulum", score |-> NoScore],
      [file_name |-> MissingKey, page_label |-> "7", category |-> MissingKey, score |-> 125],
      [file_name |-> "a.pdf", page_label |-> "2", category |-> "01_Akademik", score |-> 1000] }

NodeLists == UNION { [1..n -> SampleNodes] : n \in 0..MaxNodes }

\* One node with any score, with and without its page label.
ScoredNodes ==
    { <<[file_name |-> "a.pdf", page_label |-> p, category |-> "01_Akademik", score |-> sc]>> :
        p \in {"3", MissingKey}, sc \in Scores \cup {NoScore} }

\* sources_data = self._extract_sources(response.source_nodes[:TOP_SOURCES_TO_DISPLAY])
Extract ==
    /\ sources_data = None
    /\ sources_data' = Some(ExtractSources(TopSlice(source_nodes)))
    /\ UNCHANGED source_nodes

SourcesInit ==
    /\ ChatIdle /\ SessIdle /\ AppIdle /\ IngIdle /\ RefIdle /\ UtilIdle
    /\ source_nodes \in NodeLists \cup ScoredNodes
    /\ sources_data = None

SourcesNext ==
    \/ Extract /\ UNCHANGED nonSrcVars

SourcesSpec == SourcesInit /\ [][SourcesNext]_allVars

\* The citations returned, once _extract_sources has run.
Citations == sources_data[1]
Extracted == sources_data # None

----------------------------------------------------------------------------
(* Ingestion: main() of src/scripts/ingest.py and of src/ingest.py *)

IngestVariants == {"scripts/ingest.py", "ingest.py"}

\* main() without its credential checks
RequiredKeysNone(variant) == {}

\* Lines 55-61 (scripts/ingest.py) and 46-48 (ingest.py): the keys main() needs.
RequiredKeys(variant) ==
    IF variant = "scripts/ingest.py"
    THEN {"GOOGLE_API_KEY", "PINECONE_API_KEY", "LLAMA_CLOUD_API_KEY"}
    ELSE {"GOOGLE_API_KEY", "PINECONE_API_KEY"}

StoreEv(name) == [ev |-> name, from |-> 0, to |-> 0, ok |-> TRUE]
BatchEv(op, from, to, ok) == [ev |-> op, from |-> from, to |-> to, ok |-> ok]

\* The vector store calls of lines 127-142, each of which may raise.
StoreCalls == {"list_indexes", "delete_index", "create_index"}

\* Lines 128-131: nothing is deleted
DeleteNever(exists) == <<>>

\* Lines 128-131: delete_index is called if the index exists.
DeleteIfExists(exists) == IF exists THEN <<StoreEv("delete_index")>> ELSE <<>>

\* main() up to the batch loop: the credential checks, loading the documents,
\* then list_indexes, delete_index if the index exists, create_index, and the
\* chunking.  failAt is the vector store call that raises ("none": no call does).
IngestStart ==
    /\ ing_pc = "start"
    /\ \E failAt \in {"none"} \cup StoreCalls :
          IF ~(RequiredKeys(ing_variant) \subseteq ing_keys)
          THEN /\ ing_pc' = "returned"
               /\ UNCHANGED <<index_exists, name_in_existing, ing_events>>
          ELSE IF failAt = "list_indexes"
          THEN /\ ing_pc' = "aborted"
               /\ UNCHANGED <<index_exists, name_in_existing, ing_events>>
          ELSE IF index_exists /\ failAt = "delete_index"
          THEN /\ ing_pc' = "aborted"
               /\ name_in_existing' = index_exists
               /\ UNCHANGED <<index_exists, ing_events>>
          ELSE LET deleted == DeleteIfExists(index_exists)
               IN  IF failAt = "create_index"
                   THEN /\ ing_pc' = "aborted"
                        /\ name_in_existing' = index_exists
                        /\ index_exists' = (index_exists /\ deleted = <<>>)
                        /\ ing_events' = deleted
                   ELSE /\ ing_pc' = "batching"
                        /\ name_in_existing' = index_exists
                        /\ index_exists' = TRUE
                        /\ ing_events' = deleted \o <<StoreEv("create_index")>>
    /\ UNCHANGED <<ing_variant, ing_keys, ing_nodes, batch_i, index_obj>>

\* nodes[i : i + BATCH_SIZE]: the positions (from 0) of the slice, end excluded.
SliceEnd(i) == IF i + BATCH_SIZE < ing_nodes THEN i + BATCH_SIZE ELSE ing_nodes

\* The call made for a batch, always insert_nodes
BatchCallAlwaysInsert(idx) == "insert_nodes"

\* Lines 262-268: the call made for a batch.
BatchCall(idx) == IF idx = "None" THEN "VectorStoreIndex" ELSE "insert_nodes"

\* One iteration of the batch loop (lines 259-274); the call may raise.
IndexBatch ==
    /\ ing_pc = "batching"
    /\ batch_i < ing_nodes
    /\ \E ok \in BOOLEAN :
          /\ ing_events' = Append(ing_events,
                               BatchEv(BatchCall(index_obj), batch_i, SliceEnd(batch_i), ok))
          /\ index_obj' = IF ok THEN "index" ELSE index_obj
    /\ batch_i' = batch_i + BATCH_SIZE
    /\ UNCHANGED <<ing_variant, ing_keys, index_exists, name_in_existing, ing_pc, ing_nodes>>

\* range(0, len(nodes), BATCH_SIZE) is exhausted (line 276).
IngestFinish ==
    /\ ing_pc = "batching"
    /\ batch_i >= ing_nodes
    /\ ing_pc' = "done"
    /\ UNCHANGED <<ing_variant, ing_keys, index_exists, name_in_existing, ing_events,
                   ing_nodes, batch_i, index_obj>>

IngestInit ==
    /\ ChatIdle /\ SessIdle /\ SrcIdle /\ AppIdle /\ RefIdle /\ UtilIdle
    /\ ing_variant \in IngestVariants
    /\ ing_keys \in SUBSET IngestKeyNames
    /\ index_exists \in BOOLEAN
    /\ ing_nodes \in 0..MaxIngestNodes
    /\ IngStart

IngestNext ==
    \/ IngestStart /\ UNCHANGED nonIngVars
    \/ IndexBatch /\ UNCHANGED nonIngVars
    \/ IngestFinish /\ UNCHANGED nonIngVars

IngestSpec == IngestInit /\ [][IngestNext]_allVars

\* Reading ing_events
IngPositions == 1..Len(ing_events)
IsBatchEv(e) == e.ev \in {"VectorStoreIndex", "insert_nodes"}
BatchEvents == SelectSeq(ing_events, IsBatchEv)
FirstBatchPos ==
    IF \E i \in IngPositions : IsBatchEv(ing_events[i])
    THEN CHOOSE i \in IngPositions :
            IsBatchEv(ing_events[i]) /\ \A j \in 1..(i - 1) : ~IsBatchEv(ing_events[j])
    ELSE Len(ing_events) + 1
EventsBeforeBatches == SubSeq(ing_events, 1, FirstBatchPos - 1)

----------------------------------------------------------------------------
(* The refinement stage (src/scripts/ingest.py lines 183-242).  A text is a  *)
(* sequence of tokens, the pieces of text the guardrails look for, and a     *)
(* length in characters.                                                     *)

Tokens == {"|", "---", "#", " ", "Wajib", "x"}

Texts == UNION { [1..n -> Tokens] : n \in 0..MaxTokens }

\* len(node_text): values on both sides of the thresholds of lines 219 and 226.
Lengths == {100, 600, 601, 999, 1000, 1001}

TokenSet(text) == { text[i] : i \in 1..Len(text) }

\* contains_markdown_table never finding a table
contains_markdown_table_never(text) == FALSE

\* lines 184-186
contains_markdown_table(text) == "|" \in TokenSet(text) /\ "---" \in TokenSet(text)

\* text.strip(): the text without its leading and trailing whitespace
RECURSIVE LStrip(_)
LStrip(text) ==
    IF text # <<>> /\ Head(text) = " " THEN LStrip(Tail(text)) ELSE text

\* has_heading without the strip()
has_heading_unstripped(text) == text # <<>> /\ Head(text) = "#"

\* lines 188-190 (what follows the first character does not matter)
has_heading(text) == LStrip(text) # <<>> /\ Head(LStrip(text)) = "#"

\* line 194
policy_words ==
    {"wajib", "harus", "dikecualikan", "tidak berlaku jika", "syarat",
     "ketentuan", "peraturan", "kecuali"}

\* a token left as it is
LowerIdentity(tok) == tok

\* str.lower on a token
Lower(tok) == IF tok = "Wajib" THEN "wajib" ELSE tok

\* lines 192-196
contains_policy_keywords(text) ==
    \E i \in 1..Len(text) : Lower(text[i]) \in policy_words

Leaves == [text : Texts, len : Lengths]

\* Leaves that take each branch of the loop body.
SampleLeaves ==
    { [text |-> <<"|", "---">>, len |-> 1001],
      [text |-> <<" ", "#">>, len |-> 1001],
      [text |-> <<"x", "Wajib">>, len |-> 999],
      [text |-> <<"x">>, len |-> 601],
      [text |-> <<"x">>, len |-> 600] }

LeafLists ==
    { <<l>> : l \in Leaves } \cup UNION { [1..n -> SampleLeaves] : n \in 0..MaxLeaves }

\* An output chunk: the leaf itself (part 0), or the part-th chunk the
\* splitter made of it; both carry the metadata of leaf number leaf.
LeafChunk(i) == [leaf |-> i, part |-> 0]
SubChunks(i, k) == [p \in 1..k |-> [leaf |-> i, part |-> p]]

\* The splitter raises, or returns this many chunks.
SplitterRaises == -1
SplitterOutcomes == {SplitterRaises} \cup 0..MaxChunks

\* line 233 accepting a single chunk
SplitSucceededWithOne(outcome) == outcome # SplitterRaises /\ outcome >= 1

\* line 233: len(chunks) > 1, reached only if the splitter did not raise
SplitSucceeded(outcome) == outcome # SplitterRaises /\ outcome > 1

\* the except branch dropping the node
KeptOnRaiseDropped(i) == <<>>

\* lines 239-240: except: nodes.append(node)
KeptOnRaise(i) == <<LeafChunk(i)>>

\* One iteration of the loop of lines 205-242.
RefineLeaf ==
    /\ ref_pos < Len(leaf_nodes)
    /\ LET i == ref_pos + 1
           node == leaf_nodes[i]
       IN  \E outcome \in SplitterOutcomes :
              IF contains_markdown_table(node.text)
              THEN refined' = Append(refined, LeafChunk(i)) /\ UNCHANGED split_log
              ELSE IF has_heading(node.text)
              THEN refined' = Append(refined, LeafChunk(i)) /\ UNCHANGED split_log
              ELSE IF contains_policy_keywords(node.text) /\ node.len < 1000
              THEN refined' = Append(refined, LeafChunk(i)) /\ UNCHANGED split_log
              ELSE IF node.len > 600
              THEN /\ split_log' = Append(split_log, [leaf |-> i, out |-> outcome])
                   /\ IF outcome = SplitterRaises
                      THEN refined' = refined \o KeptOnRaise(i)
                      ELSE IF SplitSucceeded(outcome)
                      THEN refined' = refined \o SubChunks(i, outcome)
                      ELSE refined' = Append(refined, LeafChunk(i))
              ELSE refined' = Append(refined, LeafChunk(i)) /\ UNCHANGED split_log
    /\ ref_pos' = ref_pos + 1
    /\ UNCHANGED leaf_nodes

RefineInit ==
    /\ ChatIdle /\ SessIdle /\ SrcIdle /\ AppIdle /\ IngIdle /\ UtilIdle
    /\ leaf_nodes \in LeafLists
    /\ RefStart

RefineNext ==
    \/ RefineLeaf /\ UNCHANGED nonRefVars

RefineSpec == RefineInit /\ [][RefineNext]_allVars

\* The output chunks made of leaf number i.
ChunksOf(i) == SelectSeq(refined, LAMBDA c : c.leaf = i)

----------------------------------------------------------------------------
(* get_meta (src/src/utils/metadata.py lines 6-36, src/utils.py lines 7-28). *)
(* file_path is its directories and its last component; the last component  *)
(* is a string of characters.                                                *)

Digits == {"1", "2"}
Chars == Digits \cup {"_", "k"}
DirNames == {"dataset", "02_Kurikulum"}

FileNames == UNION { [1..n -> Chars] : n \in 0..MaxNameLen }
DirLists == UNION { [1..n -> DirNames] : n \in 0..MaxDirs }

\* int() of one digit
DigitVal(c) == IF c = "1" THEN 1 ELSE 2

\* re.match(r"^(\d{4})", file_name): the underscore is not asked for
YearMatchNoUnderscore(name) ==
    Len(name) >= 4 /\ \A i \in 1..4 : name[i] \in Digits

\* re.match(r"^(\d{4})_", file_name)
YearMatch(name) ==
    /\ Len(name) >= 5
    /\ \A i \in 1..4 : name[i] \in Digits
    /\ name[5] = "_"

\* int(year_match.group(1))
YearGroup(name) ==
    1000 * DigitVal(name[1]) + 100 * DigitVal(name[2])
        + 10 * DigitVal(name[3]) + DigitVal(name[4])

\* os.path.basename(os.path.dirname(file_path))
ParentFolder(dirs) == IF dirs = <<>> THEN "" ELSE dirs[Len(dirs)]

\* get_meta(file_path)
GetMeta ==
    /\ meta = None
    /\ meta' = Some([file_name |-> file_name,
                     year |-> IF YearMatch(file_name)
                              THEN YearGroup(file_name) ELSE DEFAULT_YEAR,
                     category |-> ParentFolder(file_dirs)])
    /\ UNCHANGED <<file_dirs, file_name>>

MetaInit ==
    /\ ChatIdle /\ SessIdle /\ SrcIdle /\ AppIdle /\ IngIdle /\ RefIdle /\ PdfIdle
    /\ RetryIdle
    /\ file_dirs \in DirLists
    /\ file_name \in FileNames
    /\ meta = None

MetaNext ==
    \/ GetMeta /\ UNCHANGED nonMetaVars

MetaSpec == MetaInit /\ [][MetaNext]_allVars

----------------------------------------------------------------------------
(* render_pdf_page (src/src/utils/pdf_renderer.py lines 7-49, src/utils.py  *)
(* lines 30-60)                                                              *)

\* The calls after doc[page_number] that may raise.
RenderCalls == {"get_pixmap", "tobytes", "Image.open"}

\* line 25 letting the index len(doc) through
ClampPageOffByOne(n, count) == IF n < 0 \/ n > count THEN 0 ELSE n

\* lines 25-26
ClampPage(n, count) == IF n < 0 \/ n >= count THEN 0 ELSE n

\* doc[n] raises IndexError outside the document
PageLoads(n, count) == n >= 0 /\ n < count

\* render_pdf_page(pdf_path, page_number, dpi): every exception ends in
\* return None (lines 47-49).
RenderPdfPage ==
    /\ img = NotCalled
    /\ LET n == ClampPage(page_number, page_count)
       IN  img' = IF ~pdf_openable THEN NoImage
                  ELSE IF ~PageLoads(n, page_count) THEN NoImage
                  ELSE IF render_fail # "none" THEN NoImage
                  ELSE n
    /\ UNCHANGED <<pdf_openable, page_count, page_number, render_fail>>

\* A valid PDF has at least one page.
PdfInit ==
    /\ ChatIdle /\ SessIdle /\ SrcIdle /\ AppIdle /\ IngIdle /\ RefIdle /\ MetaIdle
    /\ RetryIdle
    /\ pdf_openable \in BOOLEAN
    /\ page_count \in 1..MaxPages
    /\ page_number \in (-2)..(MaxPages + 1)
    /\ render_fail \in {"none"} \cup RenderCalls
    /\ img = NotCalled

PdfNext ==
    \/ RenderPdfPage /\ UNCHANGED nonPdfVars

PdfSpec == PdfInit /\ [][PdfNext]_allVars

----------------------------------------------------------------------------
(* The retry state of a chat session (src/frontend/app.py) *)

\* What st.chat_input returns when the user submitted: a non-empty string.
SubmittedPrompts == {"q1", "q2"}

\* The lists of alternative models a result can carry, [] included.
OfferedModels == {"a", "b"}
OfferLists ==
    UNION { [1..n -> OfferedModels] : n \in 0..MaxOffered }

\* process_query as the script calls it (lines 103 and 185): it returns
\* (response_text, sources, error, model_options) with exactly one of
\* response_text and error set, or it raises (the unpacking of a 3-tuple and
\* a rejected model_name argument raise too).
HandlerReturns ==
    {[raised |-> TRUE, response |-> None, error |-> None, model_options |-> None]}
    \cup {[raised |-> FALSE, response |-> <<"answer">>, error |-> None,
           model_options |-> None]}
    \cup {[raised |-> FALSE, response |-> None, error |-> <<"error">>,
           model_options |-> o] : o \in {None} \cup {<<l>> : l \in OfferLists}}

\* Python truth of an optional string and of an optional list.
StrTruthy(o) == o # None /\ o[1] # ""
ListTruthy(o) == o # None /\ Len(o[1]) > 0

\* A failed retry that stores whatever model_options it was given.
AfterFailedRetryOverwrite(avail, model_options) == model_options

\* Lines 111-113: 'if model_options: available_models = model_options'.
AfterFailedRetry(avail, model_options) ==
    IF ListTruthy(model_options) THEN model_options ELSE avail

\* A script run with nothing submitted, or one that line 151 ends before the
\* chat input is reached: lines 53-60 leave the existing fields alone.
PlainRun ==
    /\ session_runs < MaxSessionRuns
    /\ session_runs' = session_runs + 1
    /\ last_run' = "plain"
    /\ UNCHANGED <<pending_retry, available_models, settings_complete,
                   handler_loaded>>

\* Lines 78-133: the retry UI is shown, the button is clicked.
RetryClick ==
    /\ session_runs < MaxSessionRuns
    /\ StrTruthy(pending_retry) /\ ListTruthy(available_models)
    /\ session_runs' = session_runs + 1
    /\ \E r \in HandlerReturns :
         IF ~handler_loaded
         THEN /\ last_run' = "retry_no_handler"
              /\ UNCHANGED <<pending_retry, available_models>>
         ELSE IF r.raised
         THEN /\ last_run' = "retry_raised"
              /\ UNCHANGED <<pending_retry, available_models>>
         ELSE IF StrTruthy(r.error)
         THEN /\ last_run' = "retry_failed"
              /\ pending_retry' = pending_retry
              /\ available_models' =
                     AfterFailedRetry(available_models, r.model_options)
         ELSE /\ last_run' = "retry_ok"
              /\ pending_retry' = None
              /\ available_models' = None
    /\ UNCHANGED <<settings_complete, handler_loaded>>

\* Lines 174-200: a prompt is submitted; the run got past line 151.
QuerySubmit ==
    /\ session_runs < MaxSessionRuns
    /\ settings_complete
    /\ session_runs' = session_runs + 1
    /\ \E prompt \in SubmittedPrompts, r \in HandlerReturns :
         IF ~handler_loaded
         THEN /\ last_run' = "query_no_handler"
              /\ UNCHANGED <<pending_retry, available_models>>
         ELSE IF r.raised
         THEN /\ last_run' = "query_raised"
              /\ UNCHANGED <<pending_retry, available_models>>
         ELSE IF StrTruthy(r.error) /\ ListTruthy(r.model_options)
         THEN /\ last_run' = "query_offered"
              /\ pending_retry' = <<prompt>>
              /\ available_models' = r.model_options
         ELSE /\ last_run' = IF StrTruthy(r.error) THEN "query_error"
                                                   ELSE "query_ok"
              /\ UNCHANGED <<pending_retry, available_models>>
    /\ UNCHANGED <<settings_complete, handler_loaded>>

\* A new session, with the Settings class and the handler of the deployment.
RetryInit ==
    /\ ChatIdle /\ SessIdle /\ SrcIdle /\ AppIdle /\ IngIdle /\ RefIdle
    /\ MetaIdle /\ PdfIdle
    /\ pending_retry = None
    /\ available_models = None
    /\ settings_complete \in BOOLEAN
    /\ handler_loaded \in BOOLEAN
    /\ last_run = "none"
    /\ session_runs = 0

RetryNext ==
    \/ PlainRun /\ UNCHANGED nonRetryVars
    \/ RetryClick /\ UNCHANGED nonRetryVars
    \/ QuerySubmit /\ UNCHANGED nonRetryVars

RetrySpec == RetryInit /\ [][RetryNext]_allVars

----------------------------------------------------------------------------
(* Reading the trace of the current call *)

Positions == 1..Len(trace)

ChatAt(i) == trace[i].ev = "chat"

\* The attempt at position i failed with a rate limit (transient or daily).
RateFailAt(i) == ChatAt(i) /\ trace[i].out \in {"rate", "daily"}

\* retry_count after event i.
RetriesUpTo(i) == Cardinality({j \in 1..i : RateFailAt(j)})

\* current_model_index + 1 after event i.
SwitchTriesUpTo(i) ==
    Cardinality({j \in 1..i : trace[j].ev \in {"switch", "switch_failed"}})

Attempts == Cardinality({i \in Positions : ChatAt(i)})

SleepEvents == SelectSeq(trace, LAMBDA x : x.ev = "sleep")
SleepSecs == [i \in 1..Len(SleepEvents) |-> SleepEvents[i].secs]

SwitchEvents == SelectSeq(trace, LAMBDA x : x.ev = "switch")
SwitchedTo == [i \in 1..Len(SwitchEvents) |-> SwitchEvents[i].model]

NoSwitchFailure == \A i \in Positions : trace[i].ev # "switch_failed"

AllAttemptsTransient == \A i \in Positions : ChatAt(i) => trace[i].out = "rate"

\* The static fallback list minus the model m.
Alternatives(m) == {fallbackModels[k] : k \in 1..Len(fallbackModels)} \ {m}

----------------------------------------------------------------------------
(* C1: every return of process_query yields a tuple in which exactly one of *)
(* answer_text and error_message is non-null, and citations are non-null    *)
(* only together with answer_text.                                          *)
C1_ExactlyOneOfAnswerAndError ==
    pc = "done" =>
        /\ (result.answer_text = None) # (result.error_message = None)
        /\ (result.citations # None => result.answer_text # None)

C1_Witness ==
    /\ pc = "done"
    /\ result.error_message # None
    /\ Attempts >= 2
    /\ Len(SleepEvents) >= 1

(* C2: with two fallback models, the default retry limit and a transient    *)
(* rate limit on every attempt, the call makes two model switches, then     *)
(* sleeps base x 1 and base x 2, and ends with the "server busy" message.   *)
C2_TwoSwitchesThenBackoff ==
    ( /\ pc = "done"
      /\ Len(fallbackModels) = 2
      /\ max_retries = MAX_RETRIES
      /\ Attempts >= 1
      /\ AllAttemptsTransient
      /\ NoSwitchFailure )
    => /\ SwitchedTo = <<fallbackModels[1], fallbackModels[2]>>
       /\ SleepSecs = <<RETRY_WAIT_BASE * 1, RETRY_WAIT_BASE * 2>>
       /\ result = ErrorTuple(ServerBusyMsg)

(* C3: after an attempt that fails with a daily-quota rate limit while an   *)
(* alternative fallback model exists, the call makes no further chat        *)
(* attempt.                                                                 *)
C3_DailyQuotaStopsAttempts ==
    \A i \in Positions :
        ( /\ ChatAt(i)
          /\ trace[i].out = "daily"
          /\ Alternatives(trace[i].model) # {} )
        => \A j \in Positions : j > i => ~ChatAt(j)

(* C4: with no fallback models, a first attempt failing with a daily-quota  *)
(* rate limit ends the call with the daily-quota message after that one     *)
(* attempt, with no sleep and no retry.                                     *)
C4_DailyQuotaNoFallbackIsFatal ==
    ( /\ Len(fallbackModels) = 0
      /\ Len(trace) >= 1
      /\ trace[1].out = "daily" )
    => /\ pc = "done"
       /\ trace = <<ChatEv(LLM_MODEL, "daily")>>
       /\ result = ErrorTuple(DailyQuotaMsg)

C4_Witness ==
    /\ pc = "done"
    /\ Len(fallbackModels) = 0
    /\ Attempts = 1
    /\ trace[1].out = "daily"
    /\ max_retries > 1

(* C5: a successful switch after a transient rate limit selects the         *)
(* fallback models in list order, and the next chat attempt is made on the  *)
(* new model with no sleep in between; the call does not return before it.  *)
C5_SwitchThenImmediateAttempt ==
    NoSwitchFailure =>
        \A i \in Positions :
            (trace[i].ev = "switch" /\ trace[i - 1].out = "rate")
            => /\ trace[i].model = fallbackModels[SwitchTriesUpTo(i)]
               /\ (i < Len(trace) =>
                      ChatAt(i + 1) /\ trace[i + 1].model = trace[i].model)
               /\ (pc = "done" => i < Len(trace))

(* C6: a transient rate-limit failure with no fallback left and retries     *)
(* remaining is followed by a sleep of base_wait x retry_count and then by  *)
(* an attempt on the same model.                                            *)
C6_BackoffOnSameModel ==
    \A i \in Positions :
        ( /\ ChatAt(i)
          /\ trace[i].out = "rate"
          /\ SwitchTriesUpTo(i) >= Len(fallbackModels)
          /\ RetriesUpTo(i) < max_retries )
        => /\ Len(trace) > i
           /\ trace[i + 1] = SleepEv(RETRY_WAIT_BASE * RetriesUpTo(i))
           /\ (Len(trace) > i + 1 =>
                  ChatAt(i + 2) /\ trace[i + 2].model = trace[i].model)
           /\ (pc = "done" => Len(trace) > i + 1)

C6_Witness ==
    /\ Len(SleepEvents) >= 2
    /\ SleepSecs[1] # SleepSecs[2]
    /\ ChatAt(Len(trace))
    /\ trace[Len(trace) - 1].ev = "sleep"

(* C7: a call that ends because transient rate-limit failures used up its   *)
(* retries (max_retries >= 1) returns the "server busy" message.            *)
C7_ExhaustionIsServerBusy ==
    ( /\ pc = "done"
      /\ max_retries >= 1
      /\ retry_count >= max_retries
      /\ AllAttemptsTransient
      /\ NoSwitchFailure )
    => result = ErrorTuple(ServerBusyMsg)

(* C8: a first context-overflow failure with no earlier rate limit in the   *)
(* call is followed by a retry: the call does not return before another     *)
(* chat attempt has been made (stated for calls that allow a second         *)
(* attempt, max_retries >= 2).                                              *)
C8_ContextOverflowRetriedOnce ==
    \A i \in Positions :
        ( /\ ChatAt(i)
          /\ trace[i].out = "context"
          /\ max_retries >= 2
          /\ \A j \in 1..(i - 1) : ~RateFailAt(j) /\ trace[j].out # "context" )
        => (pc = "done" => \E j \in Positions : j > i /\ ChatAt(j))

(* C9: a context-overflow failure after a rate-limit failure in the same    *)
(* call returns the daily-quota message and no further attempt is made.     *)
C9_ContextAfterRateLimitIsDailyQuota ==
    \A i \in Positions :
        ( /\ ChatAt(i)
          /\ trace[i].out = "context"
          /\ \E j \in 1..(i - 1) : RateFailAt(j) )
        => /\ i = Len(trace)
           /\ pc = "done"
           /\ result = ErrorTuple(DailyQuotaMsg)

C9_Witness ==
    /\ pc = "done"
    /\ Len(trace) >= 3
    /\ trace[Len(trace)].out = "context"
    /\ IsContextOverflow(error_str)
    /\ \E j \in 1..(Len(trace) - 1) : RateFailAt(j)

(* C10: an attempt failing with an exception that is neither a rate limit   *)
(* nor a context overflow ends the call at once, with an error carrying     *)
(* that exception's message; nothing follows it.                            *)
C10_OtherErrorReturnsImmediately ==
    \A i \in Positions :
        (ChatAt(i) /\ trace[i].out = "other")
        => /\ i = Len(trace)
           /\ pc = "done"
           /\ ~IsRateLimit(error_str) /\ ~IsContextOverflow(error_str)
           /\ result.answer_text = None /\ result.citations = None
           /\ result.error_message = Some(Msg("Terjadi kesalahan", error_str))

C10_Witness ==
    /\ pc = "done"
    /\ Len(trace) >= 3
    /\ trace[Len(trace)].out = "other"
    /\ error_str # {}
    /\ \E j \in 1..(Len(trace) - 1) : trace[j].ev = "sleep"

(* C11: in every call on a handler, the first chat attempt is made on the   *)
(* primary model, also in a call that follows a call which switched model.  *)
C11_FirstAttemptOnPrimary ==
    Len(trace) >= 1 =>
        /\ ChatAt(1)
        /\ RetriesUpTo(0) = 0
        /\ trace[1].model = LLM_MODEL

(* C12: a query is processed with a fallback model only if the switch to    *)
(* that model was made for a query of the same session.                     *)
C12_SwitchStaysInSession ==
    \A i \in Positions :
        (ChatAt(i) /\ trace[i].model # LLM_MODEL) => lastSwitcher = caller

(* C13: every fatal outcome of a query is shown as a chat message and leaves *)
(* the session able to accept the next query; no call path from the chat   *)
(* UI raises an uncaught exception.  Stated on the script runs: a finished  *)
(* run ended without an uncaught exception and rendered the chat input.     *)
C13_SessionStaysUsable ==
    runs >= 1 => (uncaught = NoException /\ chat_input_rendered)

(* C14: a successful completion that retrieved n nodes returns exactly       *)
(* min(n, TOP_SOURCES_TO_DISPLAY) citations, and citation i is built from    *)
(* retrieved node i.                                                         *)
C14_TopCitationsInRankOrder ==
    Extracted =>
        /\ Len(Citations) = IF Len(source_nodes) < TOP_SOURCES_TO_DISPLAY
                            THEN Len(source_nodes) ELSE TOP_SOURCES_TO_DISPLAY
        /\ \A i \in 1..Len(Citations) :
              /\ Citations[i].file_name \in {source_nodes[i].file_name, "Unknown"}
              /\ Citations[i].page \in {source_nodes[i].page_label, "Unknown"}
              /\ Citations[i].category \in {source_nodes[i].category, "Unknown"}
              /\ (Citations[i].score = None) <=> (source_nodes[i].score = NoScore)

\* 5 nodes were retrieved, in an order that the citations can show.
C14_Witness ==
    /\ Extracted
    /\ Len(source_nodes) = 5
    /\ Len(Citations) = 3
    /\ source_nodes[1].file_name = "b.pdf"
    /\ source_nodes[2].page_label = "2"
    /\ source_nodes[3].page_label = "7"
    /\ source_nodes[4].page_label = "1"

(* C15, as stated: every citation has file_name and page equal to the        *)
(* file_name and page_label metadata of the node it was built from.          *)
C15_CitationEqualsNodeMetadata ==
    Extracted =>
        \A i \in 1..Len(Citations) :
            /\ Citations[i].file_name = source_nodes[i].file_name
            /\ Citations[i].page = source_nodes[i].page_label

(* C15, amended: a citation's file_name and page equal the node's file_name  *)
(* and page_label metadata where the node has that key; where the key is     *)
(* missing the citation holds the placeholder "Unknown".                     *)
C15_CitationFromMetadataOrUnknown ==
    Extracted =>
        \A i \in 1..Len(Citations) :
            /\ source_nodes[i].file_name # MissingKey
                  => Citations[i].file_name = source_nodes[i].file_name
            /\ source_nodes[i].page_label # MissingKey
                  => Citations[i].page = source_nodes[i].page_label
            /\ source_nodes[i].file_name = MissingKey
                  => Citations[i].file_name = "Unknown"
            /\ source_nodes[i].page_label = MissingKey
                  => Citations[i].page = "Unknown"

\* Citations of a node without page label, one without file name, one with both.
C15_Witness ==
    /\ Extracted
    /\ Len(Citations) = 3
    /\ source_nodes[1].page_label = MissingKey /\ Citations[1].page = "Unknown"
    /\ source_nodes[2].file_name = MissingKey /\ Citations[2].file_name = "Unknown"
    /\ Citations[3].file_name = "a.pdf" /\ Citations[3].page = "1"

(* C16: a citation's score is "N/A" exactly when the node's score is null;   *)
(* otherwise it is the score as a whole-number percentage, the whole number  *)
(* nearest to the score times 100 (0.873 gives 87%).                         *)
C16_ScoreIsNearestPercent ==
    Extracted =>
        \A i \in 1..Len(Citations) :
            LET sc == source_nodes[i].score
                c == Citations[i].score
            IN  /\ (c = None) <=> (sc = NoScore)
                /\ c # None =>
                      /\ c[1] \in Nat
                      /\ 10 * c[1] - sc <= 5
                      /\ sc - 10 * c[1] <= 5
                      /\ sc = 873 => c[1] = 87

\* The node scored 0.873 was cited with 87%, and a node without score was cited.
C16_Witness ==
    /\ Extracted
    /\ Len(Citations) = 2
    /\ source_nodes[1].score = 873 /\ Citations[1].score = Some(87)
    /\ source_nodes[2].score = NoScore /\ Citations[2].score = None

(* C17: RAGEngine construction raises if any of the three credentials (as    *)
(* the settings getters return them) is absent or empty, before any provider *)
(* client is constructed or the vector store is contacted; with all three    *)
(* present no credential error is raised.                                    *)
C17_MissingCredentialFailsFast ==
    chat_handler # Uncached =>
        /\ (\E k \in KeyNames : GetApiKey(k) \in {Absent, ""})
              => (init_error = "ValueError" /\ eng_events = <<>>)
        /\ (\A k \in KeyNames : GetApiKey(k) \notin {Absent, ""})
              => init_error # "ValueError"

\* The construction was refused for an empty LLM key, the other two being set.
C17_Witness ==
    /\ chat_handler = NoHandler
    /\ init_error = "ValueError"
    /\ eng_events = <<>>
    /\ GetApiKey("GROQ_API_KEY") = ""
    /\ GetApiKey("GOOGLE_API_KEY") = "key"
    /\ GetApiKey("PINECONE_API_KEY") = "key"

(* C18: during ingestion, an index that already exists is deleted and then   *)
(* a new one is created, both before the first batch is upserted; if no      *)
(* index exists, the index is created without any delete.                    *)
C18_RecreateBeforeFirstBatch ==
    ing_pc \in {"batching", "done"} =>
        /\ name_in_existing
              => EventsBeforeBatches = <<StoreEv("delete_index"), StoreEv("create_index")>>
        /\ ~name_in_existing
              => EventsBeforeBatches = <<StoreEv("create_index")>>
        /\ \A i \in IngPositions : i >= FirstBatchPos => IsBatchEv(ing_events[i])
        /\ index_exists

\* A run over an existing index that went on to upsert more than one batch.
C18_Witness ==
    /\ ing_pc = "done"
    /\ name_in_existing
    /\ ing_events[1].ev = "delete_index"
    /\ ing_events[2].ev = "create_index"
    /\ Len(BatchEvents) >= 2

(* C19: indexing partitions the node list, in order, into consecutive        *)
(* batches of 20 (the last possibly shorter); every batch is attempted       *)
(* exactly once; a failed batch is not retried and does not stop the later   *)
(* batches, also when it is the first one: the index is then constructed     *)
(* from the next batch.                                                      *)
C19_EveryBatchAttemptedOnce ==
    ing_pc = "done" =>
        LET b == BatchEvents
            count == (ing_nodes + BATCH_SIZE - 1) \div BATCH_SIZE
        IN  /\ Len(b) = count
            /\ \A k \in 1..Len(b) :
                  /\ b[k].from = BATCH_SIZE * (k - 1)
                  /\ b[k].to = IF BATCH_SIZE * k < ing_nodes
                               THEN BATCH_SIZE * k ELSE ing_nodes
                  /\ b[k].to > b[k].from
                  \* the index is constructed by the first batch that no
                  \* successful batch precedes
                  /\ (b[k].ev = "VectorStoreIndex")
                        <=> (\A j \in 1..(k - 1) : ~b[j].ok)

\* Three batches, the first failed, the second constructed the index, the
\* third (shorter) was inserted.
C19_Witness ==
    /\ ing_pc = "done"
    /\ Len(BatchEvents) = 3
    /\ ~BatchEvents[1].ok
    /\ BatchEvents[2].ev = "VectorStoreIndex" /\ BatchEvents[2].ok
    /\ BatchEvents[3].ev = "insert_nodes"
    /\ BatchEvents[3].to - BatchEvents[3].from < BATCH_SIZE

(* C20: in the refinement stage a leaf whose text contains a table marker    *)
(* (both '|' and '---') is passed through unchanged as exactly one output    *)
(* chunk, whatever its length and whatever else the text holds.              *)
C20_TableLeafKeptWhole ==
    \A i \in 1..ref_pos :
        ("|" \in TokenSet(leaf_nodes[i].text) /\ "---" \in TokenSet(leaf_nodes[i].text))
            => /\ ChunksOf(i) = <<LeafChunk(i)>>
               /\ \A j \in 1..Len(split_log) : split_log[j].leaf # i

\* A table of 1001 characters, with neither a heading nor a policy word, was
\* processed and kept.
C20_Witness ==
    /\ ref_pos = 1
    /\ leaf_nodes[1].len = 1001
    /\ leaf_nodes[1].text = <<"x", "---", "|">>
    /\ refined = <<LeafChunk(1)>>

(* C21: in the refinement stage a leaf whose text, leading whitespace        *)
(* stripped, begins with the heading marker '#' is passed through unchanged  *)
(* as exactly one output chunk, whatever its length.                         *)
C21_HeadingLeafKeptWhole ==
    \A i \in 1..ref_pos :
        LET text == leaf_nodes[i].text
        IN  (\E k \in 1..Len(text) :
                text[k] = "#" /\ \A j \in 1..(k - 1) : text[j] = " ")
              => ChunksOf(i) = <<LeafChunk(i)>>

\* A heading after leading whitespace, 1001 characters long and neither a
\* table nor a policy clause, was processed and kept.
C21_Witness ==
    /\ ref_pos = 1
    /\ leaf_nodes[1].len = 1001
    /\ leaf_nodes[1].text = <<" ", "#", "x">>
    /\ refined = <<LeafChunk(1)>>

(* C22: in the refinement stage a leaf shorter than 1000 characters that     *)
(* contains a policy keyword, in any letter case, is passed through          *)
(* unchanged as exactly one output chunk.                                    *)
C22_ShortPolicyLeafKeptWhole ==
    \A i \in 1..ref_pos :
        (/\ "Wajib" \in TokenSet(leaf_nodes[i].text)
         /\ leaf_nodes[i].len < 1000)
            => ChunksOf(i) = <<LeafChunk(i)>>

\* A clause of 999 characters with the keyword in mixed case, neither a
\* table nor a heading, was processed and kept without asking the splitter.
C22_Witness ==
    /\ ref_pos = 1
    /\ leaf_nodes[1].len = 999
    /\ leaf_nodes[1].text = <<"x", "Wajib">>
    /\ refined = <<LeafChunk(1)>>
    /\ split_log = <<>>

\* The splitter outcomes logged for leaf number i.
SplitOutcomesOf(i) ==
    { split_log[j].out : j \in { k \in 1..Len(split_log) : split_log[k].leaf = i } }

\* A guardrail (table, heading, short policy clause) holds for the leaf.
GuardrailFires(leaf) ==
    \/ "|" \in TokenSet(leaf.text) /\ "---" \in TokenSet(leaf.text)
    \/ \E k \in 1..Len(leaf.text) :
          leaf.text[k] = "#" /\ \A j \in 1..(k - 1) : leaf.text[j] = " "
    \/ "Wajib" \in TokenSet(leaf.text) /\ leaf.len < 1000

(* C23: a leaf is replaced by semantic sub-chunks only if no guardrail       *)
(* fired, its length exceeds 600 and the splitter returned more than one     *)
(* chunk; in every other case, the splitter returning one chunk included,    *)
(* the original chunk is kept unchanged.                                     *)
C23_SplitOnlyWhenSafeAndPlural ==
    \A i \in 1..ref_pos :
        LET leaf == leaf_nodes[i]
            splittable == ~GuardrailFires(leaf) /\ leaf.len > 600
        IN  /\ ChunksOf(i) # <<LeafChunk(i)>> =>
                  /\ splittable
                  /\ \E k \in SplitOutcomesOf(i) :
                        k > 1 /\ ChunksOf(i) = SubChunks(i, k)
            /\ (~splittable \/ SplitOutcomesOf(i) \subseteq {SplitterRaises, 0, 1})
                  => ChunksOf(i) = <<LeafChunk(i)>>
            /\ ~splittable => SplitOutcomesOf(i) = {}

\* The splitter gave a single chunk for a leaf it was asked about, and the
\* leaf was kept.
C23_Witness ==
    /\ ref_pos = 1
    /\ leaf_nodes[1] = [text |-> <<"x">>, len |-> 601]
    /\ split_log = <<[leaf |-> 1, out |-> 1]>>
    /\ refined = <<LeafChunk(1)>>

\* The chunks the loop has produced, leaf by leaf.
RECURSIVE ChunksUpTo(_)
ChunksUpTo(n) == IF n = 0 THEN <<>> ELSE ChunksUpTo(n - 1) \o ChunksOf(n)

(* C29: the refinement stage loses no leaf: its output is, in leaf order,    *)
(* each input leaf either unchanged or replaced by two or more sub-chunks    *)
(* that carry the leaf's metadata; the output has at least as many chunks as *)
(* the input, also when the splitter raises.                                 *)
C29_NoLeafLost ==
    /\ refined = ChunksUpTo(ref_pos)
    /\ Len(refined) >= ref_pos
    /\ \A i \in 1..ref_pos :
          \/ ChunksOf(i) = <<LeafChunk(i)>>
          \/ \E k \in 2..MaxChunks : ChunksOf(i) = SubChunks(i, k)
    /\ \A i \in 1..ref_pos :
          SplitterRaises \in SplitOutcomesOf(i) => ChunksOf(i) = <<LeafChunk(i)>>

\* Two leaves: the splitter raised on the first, which was kept, and split
\* the second in three.
C29_Witness ==
    /\ ref_pos = 2
    /\ split_log = <<[leaf |-> 1, out |-> SplitterRaises], [leaf |-> 2, out |-> 3]>>
    /\ refined = <<LeafChunk(1)>> \o SubChunks(2, 3)

(* C24: get_meta returns as year the leading four-digit integer of every     *)
(* file name of the form YYYY_* and the default 2024 for every other file    *)
(* name, never raising; file_name is the path's base name and category is    *)
(* the name of its parent directory.                                         *)
C24_YearFromPrefixOrDefault ==
    meta # None =>
        LET m == meta[1]
            yyyy == /\ Len(file_name) >= 5
                    /\ \A i \in 1..4 : file_name[i] \in {"1", "2"}
                    /\ file_name[5] = "_"
        IN  /\ yyyy =>
                  /\ m.year \div 1000 = DigitVal(file_name[1])
                  /\ (m.year \div 100) % 10 = DigitVal(file_name[2])
                  /\ (m.year \div 10) % 10 = DigitVal(file_name[3])
                  /\ m.year % 10 = DigitVal(file_name[4])
            /\ ~yyyy => m.year = 2024
            /\ m.file_name = file_name
            /\ file_dirs # <<>> => m.category = file_dirs[Len(file_dirs)]

\* dataset/02_Kurikulum/1221_ gave the year 1221.
C24_Witness ==
    /\ meta # None
    /\ file_name = <<"1", "2", "2", "1", "_">>
    /\ file_dirs = <<"dataset", "02_Kurikulum">>
    /\ meta[1].year = 1221
    /\ meta[1].category = "02_Kurikulum"

(* C25: for a valid PDF with pageCount pages, render_pdf_page renders page 0 *)
(* for every requested index outside [0, pageCount) and the requested page   *)
(* for every index inside it, and returns an image in both cases; on any     *)
(* failure it returns no image instead of raising.                           *)
C25_OutOfRangeGivesFirstPage ==
    img # NotCalled =>
        /\ (pdf_openable /\ render_fail = "none") =>
              /\ (page_number < 0 \/ page_number >= page_count) => img = 0
              /\ (page_number >= 0 /\ page_number < page_count) => img = page_number
        /\ (~pdf_openable \/ render_fail # "none") => img = NoImage

\* The index just past the last page of a 3-page document gave the first page.
C25_Witness ==
    /\ pdf_openable
    /\ render_fail = "none"
    /\ page_count = 3
    /\ page_number = 3
    /\ img = 0

(* C26: for every max_retries >= 0, every fallback list and every sequence   *)
(* of chat outcomes, process_query returns after calling chat_engine.chat at *)
(* most max_retries times; each rate-limit failure uses up one retry,        *)
(* whether a model switch or a sleep follows it.  Termination is stated by   *)
(* its variant: a pass of the loop that does not return raises retry_count,  *)
(* retry_count never exceeds max_retries, and the loop always has a next     *)
(* step.                                                                     *)
C26_AtMostMaxRetriesAttempts ==
    /\ [](pc # "idle" =>
            /\ Attempts <= max_retries
            /\ retry_count = RetriesUpTo(Len(trace))
            /\ retry_count <= max_retries)
    /\ [](pc = "loop" => ENABLED (LoopExit \/ ChatSuccess))
    /\ [][(pc = "loop" /\ pc' = "loop") =>
            (retry_count' = retry_count + 1 /\ max_retries' = max_retries)]_allVars

\* A call with max_retries = 3 returned after three rate-limited attempts,
\* two followed by a switch and one not.
C26_Witness ==
    /\ pc = "done"
    /\ max_retries = 3
    /\ Attempts = 3
    /\ retry_count = 3
    /\ Len(SwitchEvents) = 2

(* C27: within one process_query call, every fallback model the handler      *)
(* switches to is used for at least one chat attempt before the call         *)
(* returns.                                                                  *)
C27_SwitchedModelIsTried ==
    pc = "done" =>
        \A i \in Positions :
            trace[i].ev = "switch" =>
                \E j \in Positions :
                    j > i /\ ChatAt(j) /\ trace[j].model = trace[i].model

\* A key the running script needs is not set.
CredentialMissing ==
    \/ "GOOGLE_API_KEY" \notin ing_keys
    \/ "PINECONE_API_KEY" \notin ing_keys
    \/ ing_variant = "scripts/ingest.py" /\ "LLAMA_CLOUD_API_KEY" \notin ing_keys

(* C28: if a required ingestion credential is missing, the script returns    *)
(* before deleting or creating any index: a run that cannot index for lack   *)
(* of credentials never destroys an existing index.                          *)
C28_MissingCredentialTouchesNoIndex ==
    /\ [](CredentialMissing =>
            /\ ing_pc \in {"start", "returned"}
            /\ ing_events = <<>>)
    /\ [][CredentialMissing =>
            (index_exists' = index_exists /\ ing_pc' = "returned")]_allVars

\* The full script returned for want of the parsing key, the other two keys
\* being set, and the index that existed is still there.
C28_Witness ==
    /\ ing_pc = "returned"
    /\ ing_variant = "scripts/ingest.py"
    /\ ing_keys = {"GOOGLE_API_KEY", "PINECONE_API_KEY"}
    /\ index_exists
    /\ ing_events = <<>>

====
